---- MODULE Spec2Model ----
(***************************************************************************)
(* Model of LichessTradingBoard.py: the streaming day aggregation of       *)
(* LichessTradingBoard.fetch_games (class Day, get_rating, the one-slot    *)
(* buffer, the writes into the DataFrame self.df) and the control flow of  *)
(* LichessTradingBoard.run (fetch, save_df, show).                         *)
(*                                                                         *)
(* Python values are represented as follows.                               *)
(*   Optional[x]     <<>> for None / an absent dict key, <<x>> otherwise   *)
(*   str             a sequence of one-character strings                   *)
(*   datetime (day)  the number of whole days since the epoch              *)
(*   DataFrame       [rows |-> sequence of rows in index order,            *)
(*                    dtype |-> "object" | "float64"]                      *)
(* Assertions are executed (the script is started by a plain python3).     *)
(* Record constructors list their fields in one order throughout.          *)
(***************************************************************************)
EXTENDS Integers, Sequences, FiniteSets, TLC

\* Largest value of the "max" request parameter, hence of the stream length.
MaxGames == 3

\* Seeds of Day.high and Day.low.
HIGH_SEED == 0
LOW_SEED == 3999

\* Milliseconds in one UTC day; lastMoveAt is a millisecond timestamp.
MS_PER_DAY == 24 * 60 * 60 * 1000

\* Calendar days (days since the epoch) the games of the stream are played on.
Days == {1, 2, 3}

Max2(a, b) == IF a >= b THEN a ELSE b
Min2(a, b) == IF a <= b THEN a ELSE b
Last(s) == s[Len(s)]

-----------------------------------------------------------------------------
(* Strings                                                                 *)

\* str.casefold, character by character.
FoldChar(c) ==
    CASE c = "B" -> "b"
      [] c = "O" -> "o"
      [] OTHER -> c

casefold(s) == [i \in DOMAIN s |-> FoldChar(s[i])]

\* Python's `s in t` on two strings: s occurs in t as a substring.
str_in(s, t) ==
    \E i \in 0..(Len(t) - Len(s)) : SubSeq(t, i + 1, i + Len(s)) = s

\* Handles the analyst may type on the command line.
Handles == {<<"B", "o">>, <<"b", "o">>}

\* User ids the service reports (ids are lower case).
ID_BO == <<"b", "o">>
ID_BOB == <<"b", "o", "b">>
ID_AL == <<"a", "l">>
ID_CY == <<"c", "y">>

-----------------------------------------------------------------------------
(* Game records, as json.loads returns them                                *)

Side(user, rating, ratingDiff) ==
    [user |-> user, rating |-> rating, ratingDiff |-> ratingDiff]

Game(tod, white, black) ==
    [tod |-> tod, players |-> [white |-> white, black |-> black]]

\* The records a line of the stream may hold; tod is the time of day (ms) of
\* the last move, the day is chosen when the line is delivered.
GameRecords ==
    { Game(0,        Side(<<ID_BO>>, <<1500>>, <<12>>),  Side(<<ID_AL>>, <<1600>>, <<-12>>)),
      Game(86399999, Side(<<ID_AL>>, <<1490>>, <<-20>>), Side(<<ID_BO>>, <<1480>>, <<20>>)),
      Game(43200000, Side(<<ID_CY>>, <<1440>>, <<-30>>), Side(<<ID_BO>>, <<1450>>, <<30>>)),
      Game(1000,     Side(<<ID_BO>>, <<0>>, <<>>),       Side(<<ID_AL>>, <<1600>>, <<>>)),
      Game(2000,     Side(<<ID_BOB>>, <<1700>>, <<5>>),  Side(<<ID_BO>>, <<1480>>, <<-5>>)),
      Game(3000,     Side(<<ID_AL>>, <<1600>>, <<-5>>),  Side(<<ID_CY>>, <<4100>>, <<5>>)),
      Game(4000,     Side(<<>>, <<1500>>, <<>>),         Side(<<ID_BO>>, <<1500>>, <<>>)),
      Game(5000,     Side(<<ID_AL>>, <<1500>>, <<8>>),   Side(<<ID_BO>>, <<>>, <<>>)) }

\* A line of the stream: a record played on a day.
Line(day, rec) ==
    [players |-> rec.players, lastMoveAt |-> day * MS_PER_DAY + rec.tod]

\* line 141: the UTC calendar day of lastMoveAt, at midnight.
date_of(game) == (game.lastMoveAt \div 1000) \div (MS_PER_DAY \div 1000)

-----------------------------------------------------------------------------
(* class Day                                                               *)

\* Day.update taking the minimum over low and after only.
update_low_after(day, before, after) ==
    [day EXCEPT !.open = <<before>>,
                !.high = Max2(Max2(day.high, before), after),
                !.low = Min2(day.low, after),
                !.volume = day.volume + 1]

\* Day.update setting open to the rating after the game.
update_open_after(day, before, after) ==
    [day EXCEPT !.open = <<after>>,
                !.high = Max2(Max2(day.high, before), after),
                !.low = Min2(Min2(day.low, before), after),
                !.volume = day.volume + 1]

\* Day.update without the assertion.
update(day, before, after) ==
    [day EXCEPT !.open = <<before>>,
                !.high = Max2(Max2(day.high, before), after),
                !.low = Min2(Min2(day.low, before), after),
                !.volume = day.volume + 1]

\* The assertion of Day.update, evaluated on the Day after the fold.
update_assert(day, before, after) == day.high >= Max2(before, after)

\* Day.__init__ storing `before` as the close.
Day_close_before(date, close, before, after) ==
    update([open |-> <<>>, high |-> HIGH_SEED, low |-> LOW_SEED, volume |-> 0,
            date |-> date, close |-> before],
           before, after)

\* Day.__init__
Day(date, close, before, after) ==
    update([open |-> <<>>, high |-> HIGH_SEED, low |-> LOW_SEED, volume |-> 0,
            date |-> date, close |-> close],
           before, after)

\* Python truth value of an Optional[int]: None and 0 are false.
truthy(x) == x # <<>> /\ x[1] # 0

\* The assertion of Day.to_list.
to_list_assert(day) == truthy(day.open)

\* Day.to_list: [open, high, low, close, volume], with the row's index label.
to_list(day) ==
    [date |-> day.date, Open |-> day.open, High |-> day.high, Low |-> day.low,
     Close |-> day.close, Volume |-> day.volume]

-----------------------------------------------------------------------------
(* DataFrame                                                               *)

EmptyFrame == [rows |-> <<>>, dtype |-> "object"]

\* DataFrame.empty
empty(df) == df.rows = <<>>

\* df.loc[label] = row appending a row even when the label exists.
loc_set_append(df, row) == [df EXCEPT !.rows = Append(df.rows, row)]

\* df.loc[label] = row: overwrite the row of an existing label in place,
\* append a row for a new label.
loc_set(df, row) ==
    IF \E i \in DOMAIN df.rows : df.rows[i].date = row.date
    THEN [df EXCEPT !.rows = [i \in DOMAIN df.rows |->
                 IF df.rows[i].date = row.date THEN row ELSE df.rows[i]]]
    ELSE [df EXCEPT !.rows = Append(df.rows, row)]

RECURSIVE insert_sorted(_, _)
insert_sorted(rows, row) ==
    IF rows = <<>> THEN <<row>>
    ELSE IF Head(rows).date <= row.date
         THEN <<Head(rows)>> \o insert_sorted(Tail(rows), row)
         ELSE <<row>> \o rows

RECURSIVE sort_rows(_)
sort_rows(rows) ==
    IF rows = <<>> THEN <<>>
    ELSE insert_sorted(sort_rows(SubSeq(rows, 1, Len(rows) - 1)), Last(rows))

\* sort_index leaving the rows in insertion order.
sort_index_none(df) == df

\* sort_index in descending order of the index.
sort_index_desc(df) ==
    LET asc == sort_rows(df.rows)
    IN  [df EXCEPT !.rows = [i \in DOMAIN asc |-> asc[Len(asc) + 1 - i]]]

\* DataFrame.sort_index: rows in ascending order of the index.
sort_index(df) == [df EXCEPT !.rows = sort_rows(df.rows)]

\* DataFrame.astype(float)
astype_float(df) == [df EXCEPT !.dtype = "float64"]

\* The persisted csv file.
NoFile == [rows |-> <<>>, dtype |-> "object", exists |-> FALSE]

\* DataFrame.to_csv
to_csv(df) == [rows |-> df.rows, dtype |-> df.dtype, exists |-> TRUE]

\* pd.read_csv(path, index_col=0, parse_dates=True)
read_csv(f) == [rows |-> f.rows, dtype |-> f.dtype]

\* A file an earlier run left behind: what the program saves for the stream
\* (day 3: 1500->1512), (day 3: 1480->1500), (day 2: 1450->1480).
SavedFile ==
    [rows |-> << [date |-> 3, Open |-> <<1480>>, High |-> 1512, Low |-> 1480,
                  Close |-> 1512, Volume |-> 2] >>,
     dtype |-> "float64",
     exists |-> TRUE]

-----------------------------------------------------------------------------
(* class LichessTradingBoard                                               *)

\* get_panda reusing an existing file whatever the update flag.
get_panda_reuse(f, upd) ==
    IF f.exists THEN read_csv(f) ELSE EmptyFrame

\* get_panda
get_panda(f, upd) ==
    IF f.exists /\ ~upd THEN read_csv(f) ELSE EmptyFrame

\* get_rating: the pair (before, after) with ok = TRUE, or ok = FALSE when it
\* raises Exception(KeyError).
Raised == [before |-> 0, after |-> 0, ok |-> FALSE]

\* The rating pair of a side, raising KeyError when ratingDiff is absent.
side_rating_required(side) ==
    IF side.rating = <<>> \/ side.ratingDiff = <<>> THEN Raised
    ELSE [before |-> side.rating[1],
          after |-> side.rating[1] + side.ratingDiff[1],
          ok |-> TRUE]

\* lines 163-164 and 166-167: the rating pair of one side of the record.
side_rating(side) ==
    IF side.rating = <<>> THEN Raised
    ELSE [before |-> side.rating[1],
          after |-> side.rating[1] +
                    (IF side.ratingDiff = <<>> THEN 0 ELSE side.ratingDiff[1]),
          ok |-> TRUE]

get_rating(u, game) ==
    LET white == game.players.white
        black == game.players.black
    IN  IF white.user = <<>> THEN Raised
        ELSE IF str_in(u, white.user[1]) THEN side_rating(white)
        ELSE side_rating(black)

\* lines 143-147 appending a new Day for every game.
fold_always_append(buf, date, before, after) ==
    LET d == Day(date, after, before, after)
    IN  [ok |-> update_assert(d, before, after), buffer |-> Append(buf, d)]

\* lines 143-147: fold the observation into the pending Day, or append a new
\* Day. ok is FALSE when the assertion of Day.update fails.
fold(buf, date, before, after) ==
    IF Len(buf) = 1 /\ buf[1].date = date
    THEN LET d == update(buf[1], before, after)
         IN  [ok |-> update_assert(d, before, after), buffer |-> <<d>>]
    ELSE LET d == Day(date, after, before, after)
         IN  [ok |-> update_assert(d, before, after), buffer |-> Append(buf, d)]

\* line 148 taking every game for the start of a new day.
started_new_day_always(buf, date) == TRUE

\* line 148
started_new_day(buf, date) == buf[1].date # date

\* deque.pop in place of deque.popleft.
pop_right(buf) == [item |-> Last(buf), rest |-> SubSeq(buf, 1, Len(buf) - 1)]

\* deque.popleft
popleft(buf) == [item |-> Head(buf), rest |-> Tail(buf)]

\* The loop catching the error of get_rating and going on with the next line.
propagate_swallow(exc) ==
    [pc |-> IF exc = "Exception" THEN "loop" ELSE "raised", error |-> exc]

\* An exception raised inside fetch_games: neither fetch_games nor run
\* catches it, so it ends the run.
propagate(exc) == [pc |-> "raised", error |-> exc]

VARIABLES
    user,       \* self.user
    max_games,  \* self.max_games: Optional[int]
    update_flag,\* the update argument of the constructor
    file,       \* the csv file at self.path
    df,         \* self.df
    buffer,     \* fetch_games: the deque of Days
    lines,      \* fetch_games: the lines of r.iter_lines() consumed so far
    writes,     \* the rows assigned by self.df.loc[...] = ..., in order
    ops,        \* the Series operations executed by run, in order
    shown,      \* Optional: the frame handed to mpf.plot
    error,      \* the exception that ended the run, "" if none
    pc          \* position in run

vars == <<user, max_games, update_flag, file, df, buffer, lines, writes, ops,
          shown, error, pc>>

\* The state after LichessTradingBoard.__init__.
Init ==
    /\ user \in {casefold(h) : h \in Handles}
    /\ max_games \in {<<>>, <<MaxGames>>}
    /\ update_flag \in BOOLEAN
    /\ file \in {NoFile, SavedFile}
    /\ df = get_panda(file, update_flag)
    /\ buffer = <<>>
    /\ lines = <<>>
    /\ writes = <<>>
    /\ ops = <<>>
    /\ shown = <<>>
    /\ error = ""
    /\ pc = "run"

\* fetch_games starting with a placeholder Day in the buffer.
FetchGamesStart_seeded ==
    /\ pc = "run"
    /\ empty(df)
    /\ IF max_games = <<>>
       THEN /\ pc' = propagate("TypeError").pc
            /\ error' = propagate("TypeError").error
       ELSE /\ pc' = "loop"
            /\ error' = error
    /\ buffer' = <<Day(0, 0, 0, 0)>>
    /\ ops' = Append(ops, "fetch")
    /\ UNCHANGED <<user, max_games, update_flag, file, df, lines, writes, shown>>

\* run, line 182-183, and fetch_games up to the request (lines 135-137):
\* the log line divides self.max_games by 30.
FetchGamesStart ==
    /\ pc = "run"
    /\ empty(df)
    /\ IF max_games = <<>>
       THEN /\ pc' = propagate("TypeError").pc
            /\ error' = propagate("TypeError").error
       ELSE /\ pc' = "loop"
            /\ error' = error
    /\ buffer' = <<>>
    /\ ops' = Append(ops, "fetch")
    /\ UNCHANGED <<user, max_games, update_flag, file, df, lines, writes, shown>>

\* One iteration of the loop of fetch_games (lines 139-153) on the line `game`.
FetchGamesIter(game) ==
    /\ pc = "loop"
    /\ Len(lines) < max_games[1]
    /\ lines' = Append(lines, game)
    /\ LET date == date_of(game)
           r == get_rating(user, game)
       IN  IF ~r.ok
           THEN /\ pc' = propagate("Exception").pc
                /\ error' = propagate("Exception").error
                /\ UNCHANGED <<buffer, df, writes, ops>>
           ELSE LET f == fold(buffer, date, r.before, r.after)
                IN  IF ~f.ok
                    THEN /\ pc' = propagate("AssertionError").pc
                         /\ error' = propagate("AssertionError").error
                         /\ buffer' = f.buffer
                         /\ UNCHANGED <<df, writes, ops>>
                    ELSE IF started_new_day(f.buffer, date)
                    THEN LET p == popleft(f.buffer)
                         IN  /\ buffer' = p.rest
                             /\ IF to_list_assert(p.item)
                                THEN /\ df' = loc_set(df, to_list(p.item))
                                     /\ writes' = Append(writes, to_list(p.item))
                                     /\ ops' = Append(ops, "merge")
                                     /\ UNCHANGED <<pc, error>>
                                ELSE /\ pc' = propagate("AssertionError").pc
                                     /\ error' = propagate("AssertionError").error
                                     /\ UNCHANGED <<df, writes, ops>>
                    ELSE /\ buffer' = f.buffer
                         /\ UNCHANGED <<df, writes, ops, pc, error>>
    /\ UNCHANGED <<user, max_games, update_flag, file, shown>>

\* The stream is exhausted: lines 154-155, fetch_games returns.
FetchGamesEnd ==
    /\ pc = "loop"
    /\ df' = astype_float(sort_index(df))
    /\ ops' = Append(ops, "sort")
    /\ pc' = "fetched"
    /\ UNCHANGED <<user, max_games, update_flag, file, buffer, lines, writes, shown, error>>

\* run, line 184: save_df.
SaveDf ==
    /\ \/ pc = "fetched"
       \/ pc = "run" /\ ~empty(df)
    /\ file' = to_csv(df)
    /\ ops' = Append(ops, "save")
    /\ pc' = "saved"
    /\ UNCHANGED <<user, max_games, update_flag, df, buffer, lines, writes, shown, error>>

\* run, line 185: show.
Show ==
    /\ pc = "saved"
    /\ shown' = <<df>>
    /\ ops' = Append(ops, "show")
    /\ pc' = "done"
    /\ UNCHANGED <<user, max_games, update_flag, file, df, buffer, lines, writes, error>>

Next ==
    \/ FetchGamesStart
    \/ \E day \in Days, rec \in GameRecords : FetchGamesIter(Line(day, rec))
    \/ FetchGamesEnd
    \/ SaveDf
    \/ Show

Spec == Init /\ [][Next]_vars

-----------------------------------------------------------------------------
(* Vocabulary of the properties                                            *)

\* The dates of the lines never increase (reverse-chronological delivery).
NonIncreasing(s) ==
    \A i, j \in DOMAIN s : i < j => date_of(s[i]) >= date_of(s[j])

DatesOf(s) == {date_of(s[i]) : i \in DOMAIN s}

RowDates(rows) == {rows[i].date : i \in DOMAIN rows}

\* The dates of s in the order in which they first appear.
RECURSIVE FirstAppearance(_)
FirstAppearance(s) ==
    IF s = <<>> THEN <<>>
    ELSE LET front == SubSeq(s, 1, Len(s) - 1)
             rest == FirstAppearance(front)
         IN  IF date_of(Last(s)) \in DatesOf(front) THEN rest
             ELSE Append(rest, date_of(Last(s)))

Has(s, x) == \E i \in DOMAIN s : s[i] = x
Count(s, x) == Cardinality({i \in DOMAIN s : s[i] = x})

\* The observation a delivered line resolves to.
Obs(i) == get_rating(user, lines[i])

\* The delivered observations of date d, by position in the stream.
ObsOn(d) == {i \in DOMAIN lines : date_of(lines[i]) = d /\ Obs(i).ok}

SetMax(S) == CHOOSE v \in S : \A w \in S : v >= w
SetMin(S) == CHOOSE v \in S : \A w \in S : v <= w

\* The bar of date d computed from the delivered observations of d.
TrueBar(d) ==
    LET idx == ObsOn(d)
        vals == {Obs(i).before : i \in idx} \cup {Obs(i).after : i \in idx}
    IN  [date |-> d,
         Open |-> <<Obs(SetMax(idx)).before>>,
         High |-> SetMax(vals),
         Low |-> SetMin(vals),
         Close |-> Obs(SetMin(idx)).after,
         Volume |-> Cardinality(idx)]

RatingsInDomain ==
    \A i \in DOMAIN lines :
        Obs(i).ok => Obs(i).before \in 0..3999 /\ Obs(i).after \in 0..3999

\* The delivered stream resolves to the scenario
\* [(day 3, 1500, 1512), (day 3, 1480, 1500), (day 2, 1450, 1480)].
Scenario ==
    /\ Len(lines) = 3
    /\ \A i \in 1..3 : Obs(i).ok
    /\ <<date_of(lines[1]), Obs(1).before, Obs(1).after>> = <<3, 1500, 1512>>
    /\ <<date_of(lines[2]), Obs(2).before, Obs(2).after>> = <<3, 1480, 1500>>
    /\ <<date_of(lines[3]), Obs(3).before, Obs(3).after>> = <<2, 1450, 1480>>

\* A step of the loop of fetch_games: one more line has been consumed.
IterStep == pc = "loop" /\ lines' # lines

-----------------------------------------------------------------------------
(* Properties                                                              *)

\* C1: when fetch_games returns from a reverse-chronological stream spanning
\* N >= 1 distinct dates, the Series holds exactly N bars, one per distinct
\* date, the bar of the oldest date (the day pending at end of stream)
\* included.
C1_EveryDateHasBar ==
    (pc = "fetched" /\ lines # <<>> /\ NonIncreasing(lines)) =>
        /\ RowDates(df.rows) = DatesOf(lines)
        /\ Len(df.rows) = Cardinality(DatesOf(lines))

\* C2: on a reverse-chronological stream with ratings in [0, 4000), every Day
\* written to the Series and the Day pending in the buffer have volume = the
\* number of observations of their date, close = rating_after of the first
\* delivered, open = rating_before of the last delivered, high / low = the max
\* / min over all the before and after values of that date; the three-game
\* scenario yields the bars {3: 1480, 1512, 1480, 1512, 2} and
\* {2: 1450, 1480, 1450, 1480, 1}.
C2_DayAggregates ==
    /\ (NonIncreasing(lines) /\ RatingsInDomain) =>
          /\ \A i \in DOMAIN writes : writes[i] = TrueBar(writes[i].date)
          /\ \A i \in DOMAIN buffer :
                 /\ buffer[i].open # <<>>
                 /\ [date |-> buffer[i].date, Open |-> buffer[i].open,
                     High |-> buffer[i].high, Low |-> buffer[i].low,
                     Close |-> buffer[i].close, Volume |-> buffer[i].volume]
                    = TrueBar(buffer[i].date)
    /\ Scenario =>
          /\ df.rows = << [date |-> 3, Open |-> <<1480>>, High |-> 1512,
                           Low |-> 1480, Close |-> 1512, Volume |-> 2] >>
          /\ buffer = << [open |-> <<1450>>, high |-> 1480, low |-> 1450,
                          volume |-> 1, date |-> 2, close |-> 1480] >>

C2_Witness == Scenario /\ pc = "loop" /\ Len(writes) = 1

NeitherSide(u, game) ==
    /\ game.players.white.user # <<u>>
    /\ game.players.black.user # <<u>>

\* C4: a record with the tracked handle on neither side makes get_rating
\* fail: the run ends with the error on that record.
C4_UnknownPlayerRaises ==
    \A i \in DOMAIN lines :
        NeitherSide(user, lines[i]) =>
            i = Len(lines) /\ pc = "raised" /\ error = "Exception"

\* C5: when get_rating raises on a record the error ends the run: the
\* iteration writes no bar and leaves the Series and the buffer as they were,
\* nothing runs after an error (no later record, no save_df, no show), and the
\* file changes only in a save_df step, which a failed run never takes.
C5_ErrorPropagates ==
    [][ /\ (IterStep /\ ~get_rating(user, Last(lines')).ok) =>
               /\ pc' = "raised"
               /\ error' = "Exception"
               /\ df' = df
               /\ writes' = writes
               /\ buffer' = buffer
        /\ pc = "raised" => FALSE
        /\ pc' = "raised" =>
               /\ error' # ""
               /\ file' = file
               /\ shown' = shown
               /\ ~Has(ops', "save")
               /\ ~Has(ops', "show")
        /\ file' # file => (ops' = Append(ops, "save") /\ pc # "loop")
      ]_vars

C5_Witness ==
    /\ pc = "raised"
    /\ error = "Exception"
    /\ Len(lines) = 3
    /\ Len(writes) = 1
    /\ file = SavedFile

\* C6: every bar in the Series has low <= min(open, close),
\* high >= max(open, close) and volume >= 1, whatever the integer ratings.
C6_BarBounds ==
    \A i \in DOMAIN df.rows :
        LET row == df.rows[i]
        IN  /\ row.Volume >= 1
            /\ row.Open # <<>> =>
                  /\ row.Low <= Min2(row.Open[1], row.Close)
                  /\ row.High >= Max2(row.Open[1], row.Close)

\* A bar built from a rating above the seed of low is in the Series.
C6_Witness ==
    \E i \in DOMAIN df.rows :
        /\ df.rows[i].Open # <<>>
        /\ df.rows[i].Open[1] > LOW_SEED
        /\ df.rows[i].Volume = 2

\* C7: no bar is written to the Series, or saved, with open undefined: the
\* open of a written bar is the rating_before of an observation of its date.
C7_OpenDefined ==
    /\ \A i \in DOMAIN writes :
          /\ writes[i].Open # <<>>
          /\ \E k \in ObsOn(writes[i].date) : Obs(k).before = writes[i].Open[1]
    /\ \A i \in DOMAIN df.rows : df.rows[i].Open # <<>>
    /\ \A i \in DOMAIN file.rows : file.rows[i].Open # <<>>

C7_Witness ==
    /\ pc = "saved"
    /\ Len(writes) = 2
    /\ file.rows = df.rows

NoDuplicateDates(rows) ==
    \A i, j \in DOMAIN rows : rows[i].date = rows[j].date => i = j

\* C8: on a reverse-chronological stream each date is written at most once,
\* and a row of the Series keeps its values in every later step.
C8_WrittenOnce ==
    [][NonIncreasing(lines') =>
          /\ NoDuplicateDates(writes')
          /\ \A i \in DOMAIN df.rows : Has(df'.rows, df.rows[i])
      ]_vars

C8_Witness ==
    /\ pc = "fetched"
    /\ NonIncreasing(lines)
    /\ Len(writes) = 2
    /\ Len(df.rows) = 2

Rank(op) ==
    CASE op = "fetch" -> 0
      [] op = "merge" -> 1
      [] op = "sort" -> 2
      [] op = "save" -> 3
      [] op = "show" -> 4

Ascending(rows) ==
    \A i, j \in DOMAIN rows : i < j => rows[i].date <= rows[j].date

\* C9: in a run that fetches, the operations are the merges, then exactly one
\* sort, then save_df, then show; what save_df writes and show plots is the
\* Series in chronological order.
C9_SortBeforeSaveAndShow ==
    Has(ops, "fetch") =>
        /\ \A i, j \in DOMAIN ops : i < j => Rank(ops[i]) <= Rank(ops[j])
        /\ Count(ops, "fetch") = 1
        /\ Count(ops, "sort") <= 1
        /\ Count(ops, "save") <= 1
        /\ Count(ops, "show") <= 1
        /\ Count(ops, "merge") = Len(writes)
        /\ Has(ops, "save") => Count(ops, "sort") = 1
        /\ Has(ops, "show") => Has(ops, "save")
        /\ pc \in {"saved", "done"} =>
              /\ Has(ops, "save")
              /\ file = to_csv(df)
              /\ Ascending(file.rows)
        /\ pc = "done" =>
              /\ Has(ops, "show")
              /\ shown = <<df>>
              /\ Ascending(shown[1].rows)

C9_Witness ==
    /\ pc = "done"
    /\ Has(ops, "fetch")
    /\ Count(ops, "merge") = 2

StrictlyAscending(rows) ==
    \A i, j \in DOMAIN rows : i < j => rows[i].date < rows[j].date

C11_FetchDecision ==
    [][ /\ pc = "run" =>
            /\ ~file.exists => (empty(df) /\ error = "" /\ ops' = <<"fetch">>)
            /\ update_flag => (empty(df) /\ ops' = <<"fetch">>)
            /\ (file.exists /\ file.rows # <<>> /\ ~update_flag) =>
                   /\ df.rows = file.rows
                   /\ df.dtype = file.dtype
                   /\ ops' = <<"save">>
                   /\ df' = df
                   /\ file' = file
        /\ (pc = "saved" /\ ~Has(ops, "fetch")) =>
               /\ ops' = <<"save", "show">>
               /\ df.rows = file.rows
               /\ shown' = <<df>>
               /\ UNCHANGED <<df, file, lines, writes, buffer>>
      ]_vars

C11_Witness ==
    /\ pc = "done"
    /\ ops = <<"save", "show">>
    /\ ~update_flag
    /\ shown = <<df>>
    /\ df.rows = SavedFile.rows
    /\ file = SavedFile

\* C12: on an empty stream fetch_games writes no bar, no Day is pending when
\* the stream ends, and the Series (and the file saved from it) is empty.
C12_EmptyStream ==
    (Has(ops, "fetch") /\ lines = <<>> /\ pc # "raised") =>
        /\ writes = <<>>
        /\ ~Has(ops, "merge")
        /\ buffer = <<>>
        /\ empty(df)
        /\ pc \in {"saved", "done"} => file.rows = <<>>

C12_Witness ==
    /\ pc = "saved"
    /\ Has(ops, "sort")
    /\ lines = <<>>
    /\ file.exists

\* The bars of the run: those written so far and those of the pending Days.
Bars ==
    {writes[i] : i \in DOMAIN writes} \cup {to_list(buffer[i]) : i \in DOMAIN buffer}

\* C13: assigning the same bar to the Series twice gives the Series obtained
\* by assigning it once: same dates, same values.
C13_MergeIdempotent ==
    \A bar \in Bars :
        LET once == loc_set(df, bar)
            twice == loc_set(once, bar)
        IN  /\ twice = once
            /\ Has(once.rows, bar)
            /\ RowDates(once.rows) = RowDates(df.rows) \cup {bar.date}

\* A state with a written bar (its label exists) and a pending bar whose
\* label is new.
C13_Witness ==
    /\ pc = "loop"
    /\ Len(df.rows) = 2
    /\ buffer # <<>>
    /\ buffer[1].date \notin RowDates(df.rows)
    /\ writes[1].date \in RowDates(df.rows)

\* C14: the buffer never holds more than two Days, also between the append
\* and the popleft of an iteration; when an iteration completes it holds
\* exactly one Day, of the date of the observation just processed; it is empty
\* only while no observation has been delivered. Any order of dates.
C14_PendingSlot ==
    [][ /\ IterStep =>
            LET game == Last(lines')
                date == date_of(game)
                r == get_rating(user, game)
            IN  /\ Len(buffer) <= 1
                /\ r.ok => Len(fold(buffer, date, r.before, r.after).buffer) <= 2
                /\ Len(buffer') <= 1
                /\ pc' = "loop" =>
                       /\ Len(buffer') = 1
                       /\ buffer'[1].date = date
        /\ pc' # "raised" => (buffer' = <<>> <=> lines' = <<>>)
      ]_vars

C14_Witness ==
    /\ pc = "loop"
    /\ Len(lines) = 3
    /\ ~NonIncreasing(lines)
    /\ Len(buffer) = 1
    /\ buffer[1].date = date_of(Last(lines))
    /\ buffer[1].volume = 1

\* C15: with max_games absent (None), a run that enters fetch_games reaches
\* the aggregation loop without raising an error.
C15_NoLimitFetches ==
    (max_games = <<>> /\ Has(ops, "fetch")) => (pc # "raised" /\ error = "")

\* C16: with ratings in [0, 4000), rating 0 included, no assertion of
\* Day.update or Day.to_list fails.
C16_AssertionsHold ==
    RatingsInDomain => error # "AssertionError"

\* before + ratingDiff of a side, ratingDiff counting 0 when absent.
AfterOf(side) ==
    side.rating[1] + (IF side.ratingDiff = <<>> THEN 0 ELSE side.ratingDiff[1])

\* C17: get_rating returns the ratings of the side whose user id is the
\* tracked handle: of the black side when the tracked player plays black,
\* whatever the white id, of the white side when the player plays white.
C17_TrackedSide ==
    \A i \in DOMAIN lines :
        LET white == lines[i].players.white
            black == lines[i].players.black
        IN  /\ (black.user = <<user>> /\ white.user # <<>> /\ white.user # <<user>>
                    /\ black.rating # <<>>) =>
                   /\ Obs(i).ok
                   /\ Obs(i).before = black.rating[1]
                   /\ Obs(i).after = AfterOf(black)
            /\ (white.user = <<user>> /\ white.rating # <<>>) =>
                   /\ Obs(i).ok
                   /\ Obs(i).before = white.rating[1]
                   /\ Obs(i).after = AfterOf(white)

\* The side get_rating resolves a record to (the white user id is present).
ResolvedSide(game) ==
    IF str_in(user, game.players.white.user[1])
    THEN game.players.white ELSE game.players.black

\* C18: the rating_after of get_rating is rating_before + ratingDiff of the
\* resolved side, and rating_before when ratingDiff is absent, in which case
\* no error is raised.
C18_RatingAfter ==
    \A i \in DOMAIN lines :
        lines[i].players.white.user # <<>> =>
            LET side == ResolvedSide(lines[i])
            IN  side.rating # <<>> =>
                   /\ Obs(i).ok
                   /\ Obs(i).before = side.rating[1]
                   /\ side.ratingDiff # <<>> =>
                          Obs(i).after = Obs(i).before + side.ratingDiff[1]
                   /\ side.ratingDiff = <<>> => Obs(i).after = Obs(i).before

\* A record without ratingDiff and one with it have been folded.
C18_Witness ==
    /\ pc = "loop"
    /\ Len(lines) = 2
    /\ ResolvedSide(lines[1]).ratingDiff = <<>>
    /\ ResolvedSide(lines[2]).ratingDiff # <<>>
    /\ date_of(lines[1]) = date_of(lines[2])
    /\ buffer[1].volume = 2
    /\ buffer[1].close = Obs(1).before

====
